---- MODULE Spec2Model ----
(***************************************************************************)
(* Timer / cycle state machine of the Pomodoro widget (src/pomodoro.py,    *)
(* class UltimatePomodoro) together with the alarm of AudioManager.        *)
(*                                                                         *)
(* One action per Qt callback.  finish_cycle() ends in dlg.exec(), which   *)
(* runs a nested event loop until the ThemeDialog is accepted: the part of *)
(* the handler before dlg.exec() belongs to the tick that expired the      *)
(* segment, the part after it (audio_mgr.stop()) to the acknowledgement.   *)
(* While the nested loop runs the 1-second QTimer keeps firing, so         *)
(* tick_timer is enabled with dialogs open; the dialog is application      *)
(* modal, so the mouse and menu commands of the widget are not.            *)
(***************************************************************************)
EXTENDS Integers, Naturals, Sequences, FiniteSets, TLC

VARIABLES
    work_duration,    \* self.work_duration   (minutes)
    break_duration,   \* self.break_duration  (minutes)
    target_cycles,    \* self.target_cycles
    total_time,       \* self.total_time      (seconds)
    current_time,     \* self.current_time    (seconds)
    is_running,       \* self.is_running
    mode,             \* self.mode
    current_cycle,    \* self.current_cycle
    settings,         \* QSettings store: the three persisted integers
    is_ready,         \* audio_mgr.is_ready
    builtin_alarm,    \* audio_mgr.builtin_alarm is not None
    music_playing,    \* pygame.mixer.music is playing
    dialogs,          \* ThemeDialogs whose exec() has not returned (nesting depth)
    op,               \* history: the callback that ran last
    crossed,          \* history: the last callback decremented current_time to 0
    notified,         \* history: ThemeDialogs the last callback opened
    configured,       \* history: after a reset command, the field ("work", "break",
                      \* "cycles") set by the command right before it, else "none"
    toggle_run,       \* history: n = length (up to 2) of the run of toggle commands the
                      \* last callbacks form, before = the fields before that run
    ticks             \* history: running ticks counted by the plan specification

vars == <<work_duration, break_duration, target_cycles, total_time, current_time,
          is_running, mode, current_cycle, settings, is_ready, builtin_alarm,
          music_playing, dialogs, op, crossed, notified,
          configured, toggle_run, ticks>>

timerVars == <<total_time, current_time, is_running, mode, current_cycle>>
configVars == <<work_duration, break_duration, target_cycles, settings>>
audioEnv == <<is_ready, builtin_alarm>>

\* The fields of the timer and its configuration, as one value.
Snapshot == <<mode, total_time, current_time, is_running, current_cycle,
              target_cycles, work_duration, break_duration>>
NoToggle == [n |-> 0, before |-> <<>>]

\* ---------------------------------------------------------------- bounds
MaxWork == 2        \* largest work duration (minutes) configured in the model
MaxBreak == 2       \* largest break duration (minutes) configured in the model
MaxCycles == 2      \* largest target cycle count configured in the model
MaxDialogs == 2     \* deepest nesting of unacknowledged ThemeDialogs explored

\* ------------------------------------------------------ program constants
SecondsPerMinute == 60
WorkMinLimit == 1
WorkMaxLimit == 120
BreakMinLimit == 1
BreakMaxLimit == 60
CyclesMinLimit == 1
CyclesMaxLimit == 20

\* Values QInputDialog.getInt can return: its spin box is confined to [min, max].
WorkInputs == (WorkMinLimit..WorkMaxLimit) \cap (0..MaxWork)
BreakInputs == (BreakMinLimit..BreakMaxLimit) \cap (0..MaxBreak)
CycleInputs == (CyclesMinLimit..CyclesMaxLimit) \cap (0..MaxCycles)

\* ---------------------------------------------------------------- audio
\* AudioManager.play(file_path).  custom is the outcome of the test
\* "file_path and os.path.exists(file_path)", which the file system decides at the
\* call.  The result is whether music plays afterwards.
play(custom) ==
    IF ~is_ready THEN music_playing
    ELSE IF custom THEN TRUE
    ELSE IF builtin_alarm THEN TRUE
    ELSE FALSE

\* AudioManager.stop()
stop == IF is_ready THEN FALSE ELSE music_playing

\* ---------------------------------------------------------------- init
Init ==
    /\ settings \in [work_duration : WorkInputs, break_duration : BreakInputs,
                     target_cycles : CycleInputs]
    /\ work_duration = settings.work_duration
    /\ break_duration = settings.break_duration
    /\ target_cycles = settings.target_cycles
    /\ is_ready \in BOOLEAN
    /\ builtin_alarm \in BOOLEAN
    /\ music_playing = FALSE
    /\ total_time = work_duration * SecondsPerMinute
    /\ current_time = total_time
    /\ is_running = FALSE
    /\ mode = "WORK"
    /\ current_cycle = 1
    /\ dialogs = 0
    /\ op = "init"
    /\ crossed = FALSE
    /\ notified = 0
    /\ configured = "none"
    /\ toggle_run = NoToggle
    /\ ticks = 0


\* Mutant of finish_cycle: the WORK branch forgets to set is_running back to True.
finish_cycle_pauses_on_break ==
    /\ \E custom \in BOOLEAN : music_playing' = play(custom)
    /\ IF mode = "WORK"
         THEN /\ mode' = "BREAK"
              /\ total_time' = break_duration * SecondsPerMinute
              /\ current_time' = break_duration * SecondsPerMinute
              /\ is_running' = FALSE
              /\ current_cycle' = current_cycle
         ELSE IF current_cycle >= target_cycles
                THEN /\ current_cycle' = 1
                     /\ mode' = "WORK"
                     /\ total_time' = work_duration * SecondsPerMinute
                     /\ current_time' = work_duration * SecondsPerMinute
                     /\ is_running' = FALSE
                ELSE /\ current_cycle' = current_cycle + 1
                     /\ mode' = "WORK"
                     /\ total_time' = work_duration * SecondsPerMinute
                     /\ current_time' = work_duration * SecondsPerMinute
                     /\ is_running' = TRUE
    /\ dialogs' = dialogs + 1
    /\ notified' = 1

\* Mutant of finish_cycle: the completion test is > instead of >=.
finish_cycle_off_by_one ==
    /\ \E custom \in BOOLEAN : music_playing' = play(custom)
    /\ IF mode = "WORK"
         THEN /\ mode' = "BREAK"
              /\ total_time' = break_duration * SecondsPerMinute
              /\ current_time' = break_duration * SecondsPerMinute
              /\ is_running' = TRUE
              /\ current_cycle' = current_cycle
         ELSE IF current_cycle > target_cycles
                THEN /\ current_cycle' = 1
                     /\ mode' = "WORK"
                     /\ total_time' = work_duration * SecondsPerMinute
                     /\ current_time' = work_duration * SecondsPerMinute
                     /\ is_running' = FALSE
                ELSE /\ current_cycle' = current_cycle + 1
                     /\ mode' = "WORK"
                     /\ total_time' = work_duration * SecondsPerMinute
                     /\ current_time' = work_duration * SecondsPerMinute
                     /\ is_running' = TRUE
    /\ dialogs' = dialogs + 1
    /\ notified' = 1

\* Mutant of finish_cycle: the WORK branch forgets to reseed current_time, which
\* stays at the 0 the tick left.
finish_cycle_no_reseed ==
    /\ \E custom \in BOOLEAN : music_playing' = play(custom)
    /\ IF mode = "WORK"
         THEN /\ mode' = "BREAK"
              /\ total_time' = break_duration * SecondsPerMinute
              /\ current_time' = current_time - 1
              /\ is_running' = TRUE
              /\ current_cycle' = current_cycle
         ELSE IF current_cycle >= target_cycles
                THEN /\ current_cycle' = 1
                     /\ mode' = "WORK"
                     /\ total_time' = work_duration * SecondsPerMinute
                     /\ current_time' = work_duration * SecondsPerMinute
                     /\ is_running' = FALSE
                ELSE /\ current_cycle' = current_cycle + 1
                     /\ mode' = "WORK"
                     /\ total_time' = work_duration * SecondsPerMinute
                     /\ current_time' = work_duration * SecondsPerMinute
                     /\ is_running' = TRUE
    /\ dialogs' = dialogs + 1
    /\ notified' = 1

\* ---------------------------------------------------------------- timer
\* finish_cycle() up to and including the opening of the ThemeDialog.
finish_cycle ==
    /\ \E custom \in BOOLEAN : music_playing' = play(custom)
    /\ IF mode = "WORK"
         THEN /\ mode' = "BREAK"
              /\ total_time' = break_duration * SecondsPerMinute
              /\ current_time' = break_duration * SecondsPerMinute
              /\ is_running' = TRUE
              /\ current_cycle' = current_cycle
         ELSE IF current_cycle >= target_cycles
                THEN /\ current_cycle' = 1
                     /\ mode' = "WORK"
                     /\ total_time' = work_duration * SecondsPerMinute
                     /\ current_time' = work_duration * SecondsPerMinute
                     /\ is_running' = FALSE
                ELSE /\ current_cycle' = current_cycle + 1
                     /\ mode' = "WORK"
                     /\ total_time' = work_duration * SecondsPerMinute
                     /\ current_time' = work_duration * SecondsPerMinute
                     /\ is_running' = TRUE
    /\ dialogs' = dialogs + 1
    /\ notified' = 1


\* Mutant of tick_timer: the expiry test is < 0 instead of <= 0.
tick_timer_strict ==
    /\ op' = "tick"
    /\ configured' = "none"
    /\ toggle_run' = NoToggle
    /\ UNCHANGED <<configVars, audioEnv>>
    /\ IF is_running
         THEN /\ crossed' = (current_time - 1 = 0)
              /\ IF current_time - 1 < 0
                   THEN finish_cycle
                   ELSE /\ current_time' = current_time - 1
                        /\ notified' = 0
                        /\ UNCHANGED <<total_time, is_running, mode, current_cycle,
                                       music_playing, dialogs>>
         ELSE /\ crossed' = FALSE
              /\ notified' = 0
              /\ UNCHANGED <<timerVars, music_playing, dialogs>>

\* tick_timer(): the 1-second QTimer callback.
tick_timer ==
    /\ op' = "tick"
    /\ configured' = "none"
    /\ toggle_run' = NoToggle
    /\ UNCHANGED <<configVars, audioEnv>>
    /\ IF is_running
         THEN /\ crossed' = (current_time - 1 = 0)
              /\ IF current_time - 1 <= 0
                   THEN finish_cycle
                   ELSE /\ current_time' = current_time - 1
                        /\ notified' = 0
                        /\ UNCHANGED <<total_time, is_running, mode, current_cycle,
                                       music_playing, dialogs>>
         ELSE /\ crossed' = FALSE
              /\ notified' = 0
              /\ UNCHANGED <<timerVars, music_playing, dialogs>>

\* The ThemeDialog on top is accepted: dlg.exec() returns and finish_cycle() ends.
acknowledge ==
    /\ dialogs > 0
    /\ dialogs' = dialogs - 1
    /\ music_playing' = stop
    /\ op' = "ack"
    /\ configured' = "none"
    /\ toggle_run' = NoToggle
    /\ crossed' = FALSE
    /\ notified' = 0
    /\ UNCHANGED <<timerVars, configVars, audioEnv>>

\* Mutant of toggle_timer: starting the timer also reseeds the segment.
toggle_timer_restarts ==
    /\ dialogs = 0
    /\ is_running' = ~is_running
    /\ current_time' = (IF is_running THEN current_time ELSE total_time)
    /\ op' = "toggle"
    /\ configured' = "none"
    /\ toggle_run' = (IF toggle_run.n = 1
                       THEN [n |-> 2, before |-> toggle_run.before]
                       ELSE [n |-> 1, before |-> Snapshot])
    /\ crossed' = FALSE
    /\ notified' = 0
    /\ UNCHANGED <<total_time, mode, current_cycle, configVars,
                   audioEnv, music_playing, dialogs>>

\* toggle_timer(), from mousePressEvent on the play/pause button.
toggle_timer ==
    /\ dialogs = 0
    /\ is_running' = ~is_running
    /\ op' = "toggle"
    /\ configured' = "none"
    /\ toggle_run' = (IF toggle_run.n = 1
                       THEN [n |-> 2, before |-> toggle_run.before]
                       ELSE [n |-> 1, before |-> Snapshot])
    /\ crossed' = FALSE
    /\ notified' = 0
    /\ UNCHANGED <<total_time, current_time, mode, current_cycle, configVars,
                   audioEnv, music_playing, dialogs>>


\* Mutant of reset_timer: total_time is reseeded but current_time is not.
reset_timer_keeps_current ==
    /\ is_running' = FALSE
    /\ total_time' = (IF mode = "WORK" THEN work_duration' ELSE break_duration')
                        * SecondsPerMinute
    /\ current_time' = current_time

\* Mutant of reset_timer: the timer is reseeded but not paused.
reset_timer_keeps_running ==
    /\ is_running' = is_running
    /\ total_time' = (IF mode = "WORK" THEN work_duration' ELSE break_duration')
                        * SecondsPerMinute
    /\ current_time' = total_time'

\* reset_timer(): reseeds the segment from the duration of the current mode.  It is
\* called after the assignment of a new duration, so it reads the new values.
reset_timer ==
    /\ is_running' = FALSE
    /\ total_time' = (IF mode = "WORK" THEN work_duration' ELSE break_duration')
                        * SecondsPerMinute
    /\ current_time' = total_time'

\* The menu entry connected to reset_timer.
reset_action ==
    /\ dialogs = 0
    /\ UNCHANGED <<configVars, audioEnv, mode, current_cycle, music_playing, dialogs>>
    /\ reset_timer
    /\ op' = "reset"
    /\ configured' = (IF op = "set_work" THEN "work"
                      ELSE IF op = "set_break" THEN "break"
                      ELSE IF op = "set_cycles" THEN "cycles"
                      ELSE "none")
    /\ toggle_run' = NoToggle
    /\ crossed' = FALSE
    /\ notified' = 0

\* set_work_time(): t, ok are what QInputDialog.getInt returns.
set_work_time ==
    /\ dialogs = 0
    /\ \E t \in WorkInputs, ok \in BOOLEAN :
         IF ok
           THEN /\ work_duration' = t
                /\ settings' = [settings EXCEPT !.work_duration = t]
                /\ UNCHANGED <<break_duration, target_cycles>>
                /\ IF mode = "WORK"
                     THEN reset_timer
                     ELSE UNCHANGED <<is_running, total_time, current_time>>
                /\ op' = "set_work"
                /\ configured' = "none"
                /\ toggle_run' = NoToggle
                /\ crossed' = FALSE
                /\ notified' = 0
                /\ UNCHANGED <<mode, current_cycle, audioEnv, music_playing, dialogs>>
           ELSE UNCHANGED vars


\* Mutant of set_break_time: the segment is reset whatever the mode.
set_break_time_always_resets ==
    /\ dialogs = 0
    /\ \E t \in BreakInputs, ok \in BOOLEAN :
         IF ok
           THEN /\ break_duration' = t
                /\ settings' = [settings EXCEPT !.break_duration = t]
                /\ UNCHANGED <<work_duration, target_cycles>>
                /\ reset_timer
                /\ op' = "set_break"
                /\ configured' = "none"
                /\ toggle_run' = NoToggle
                /\ crossed' = FALSE
                /\ notified' = 0
                /\ UNCHANGED <<mode, current_cycle, audioEnv, music_playing, dialogs>>
           ELSE UNCHANGED vars

\* set_break_time()
set_break_time ==
    /\ dialogs = 0
    /\ \E t \in BreakInputs, ok \in BOOLEAN :
         IF ok
           THEN /\ break_duration' = t
                /\ settings' = [settings EXCEPT !.break_duration = t]
                /\ UNCHANGED <<work_duration, target_cycles>>
                /\ IF mode = "BREAK"
                     THEN reset_timer
                     ELSE UNCHANGED <<is_running, total_time, current_time>>
                /\ op' = "set_break"
                /\ configured' = "none"
                /\ toggle_run' = NoToggle
                /\ crossed' = FALSE
                /\ notified' = 0
                /\ UNCHANGED <<mode, current_cycle, audioEnv, music_playing, dialogs>>
           ELSE UNCHANGED vars


\* Mutant of set_total_cycles: current_cycle is not set back to 1.
set_total_cycles_keeps_cycle ==
    /\ dialogs = 0
    /\ \E c \in CycleInputs, ok \in BOOLEAN :
         IF ok
           THEN /\ target_cycles' = c
                /\ settings' = [settings EXCEPT !.target_cycles = c]
                /\ current_cycle' = current_cycle
                /\ op' = "set_cycles"
                /\ configured' = "none"
                /\ toggle_run' = NoToggle
                /\ crossed' = FALSE
                /\ notified' = 0
                /\ UNCHANGED <<work_duration, break_duration, total_time, current_time,
                               is_running, mode, audioEnv, music_playing, dialogs>>
           ELSE UNCHANGED vars

\* Mutant of set_total_cycles: the segment is reset as the duration commands do.
set_total_cycles_resets_timer ==
    /\ dialogs = 0
    /\ \E c \in CycleInputs, ok \in BOOLEAN :
         IF ok
           THEN /\ target_cycles' = c
                /\ settings' = [settings EXCEPT !.target_cycles = c]
                /\ current_cycle' = 1
                /\ UNCHANGED <<work_duration, break_duration>>
                /\ reset_timer
                /\ op' = "set_cycles"
                /\ configured' = "none"
                /\ toggle_run' = NoToggle
                /\ crossed' = FALSE
                /\ notified' = 0
                /\ UNCHANGED <<mode, audioEnv, music_playing, dialogs>>
           ELSE UNCHANGED vars

\* set_total_cycles()
set_total_cycles ==
    /\ dialogs = 0
    /\ \E c \in CycleInputs, ok \in BOOLEAN :
         IF ok
           THEN /\ target_cycles' = c
                /\ settings' = [settings EXCEPT !.target_cycles = c]
                /\ current_cycle' = 1
                /\ op' = "set_cycles"
                /\ configured' = "none"
                /\ toggle_run' = NoToggle
                /\ crossed' = FALSE
                /\ notified' = 0
                /\ UNCHANGED <<work_duration, break_duration, total_time, current_time,
                               is_running, mode, audioEnv, music_playing, dialogs>>
           ELSE UNCHANGED vars

\* ------------------------------------------------------- specifications
\* A tick of the main specification; the nesting of dialogs explored is capped.
Tick ==
    /\ tick_timer
    /\ notified' = 0 \/ dialogs < MaxDialogs
    /\ UNCHANGED ticks

Acknowledge == acknowledge /\ UNCHANGED ticks
Toggle == toggle_timer /\ UNCHANGED ticks
Reset == reset_action /\ UNCHANGED ticks
SetWork == set_work_time /\ UNCHANGED ticks
SetBreak == set_break_time /\ UNCHANGED ticks
SetCycles == set_total_cycles /\ UNCHANGED ticks

Next ==
    \/ Tick
    \/ Acknowledge
    \/ Toggle
    \/ Reset
    \/ SetWork
    \/ SetBreak
    \/ SetCycles

Spec == Init /\ [][Next]_vars

\* Startup from an arbitrary store.  QSettings is a file or registry key outside the
\* program; __init__ converts what it holds with int() and checks no range.  The
\* stored values are drawn from the inputs of the dialogs and the value 0 below them.
StoredWork == 0..MaxWork
StoredBreak == 0..MaxBreak
StoredCycles == 0..MaxCycles

InitStored ==
    /\ settings \in [work_duration : StoredWork, break_duration : StoredBreak,
                     target_cycles : StoredCycles]
    /\ work_duration = settings.work_duration
    /\ break_duration = settings.break_duration
    /\ target_cycles = settings.target_cycles
    /\ is_ready \in BOOLEAN
    /\ builtin_alarm \in BOOLEAN
    /\ music_playing = FALSE
    /\ total_time = work_duration * SecondsPerMinute
    /\ current_time = total_time
    /\ is_running = FALSE
    /\ mode = "WORK"
    /\ current_cycle = 1
    /\ dialogs = 0
    /\ op = "init"
    /\ crossed = FALSE
    /\ notified = 0
    /\ configured = "none"
    /\ toggle_run = NoToggle
    /\ ticks = 0

SpecStartup == InitStored /\ [][Next]_vars

\* The plan run: the timer is started once from the initial state, then only the
\* QTimer ticks and the user acknowledges the notifications.  ticks counts the
\* ticks that found the timer running.
PlanStart == op = "init" /\ toggle_timer /\ UNCHANGED ticks
PlanTick == tick_timer /\ ticks' = (IF is_running THEN ticks + 1 ELSE ticks)
PlanAck == acknowledge /\ UNCHANGED ticks

PlanNext ==
    \/ PlanStart
    \/ PlanTick
    \/ PlanAck

SpecPlan == Init /\ [][PlanNext]_vars /\ WF_vars(PlanTick) /\ WF_vars(PlanAck)

\* ------------------------------------------------------------- properties
\* The step is a tick_timer() call that finds the timer running with one second left:
\* the segment expires and finish_cycle() runs.
Expires == op' = "tick" /\ is_running /\ current_time <= 1

\* C1: whenever a segment expires, finish_cycle() produces the state of the transition
\* table: WORK -> BREAK, cycle unchanged, running; BREAK with cycle < target -> WORK,
\* cycle + 1, running; BREAK with cycle >= target -> WORK, cycle 1, paused; in every
\* case total_time is the new mode's duration in seconds and current_time = total_time.
FinishCycleTable ==
    [][Expires =>
        /\ mode = "WORK" =>
             /\ mode' = "BREAK"
             /\ current_cycle' = current_cycle
             /\ is_running' = TRUE
             /\ total_time' = break_duration * 60
        /\ mode = "BREAK" /\ current_cycle < target_cycles =>
             /\ mode' = "WORK"
             /\ current_cycle' = current_cycle + 1
             /\ is_running' = TRUE
             /\ total_time' = work_duration * 60
        /\ mode = "BREAK" /\ current_cycle >= target_cycles =>
             /\ mode' = "WORK"
             /\ current_cycle' = 1
             /\ is_running' = FALSE
             /\ total_time' = work_duration * 60
        /\ current_time' = total_time']_vars

\* C1 witness: the last break of a two-cycle plan has just expired.
LastBreakExpired ==
    /\ op = "tick" /\ notified = 1
    /\ target_cycles = 2 /\ mode = "WORK" /\ ~is_running /\ current_cycle = 1
    /\ current_time = total_time

\* Length in ticks of one work segment, one cycle and the whole plan.
WorkTicks == work_duration * 60
CycleTicks == (work_duration + break_duration) * 60
PlanTicks == target_cycles * CycleTicks

PlanStarted == is_running \/ ticks > 0

PlanComplete ==
    /\ ticks = PlanTicks
    /\ mode = "WORK" /\ ~is_running /\ current_cycle = 1

\* Where the plan stands after `ticks` ticks: WORK and BREAK alternate, the cycle
\* counts 1..target_cycles, and after PlanTicks ticks the plan is complete.
PlanSchedule ==
    PlanStarted =>
        IF ticks < PlanTicks
          THEN /\ is_running
               /\ current_cycle = (ticks \div CycleTicks) + 1
               /\ LET r == ticks % CycleTicks
                  IN  IF r < WorkTicks
                        THEN mode = "WORK" /\ current_time = WorkTicks - r
                        ELSE mode = "BREAK" /\ current_time = CycleTicks - r
          ELSE PlanComplete

\* C2: started from WORK, cycle 1, a full work segment, with only ticks and
\* acknowledgements, the machine follows the schedule and, under fair ticking, reaches
\* the paused WORK state with current_cycle = 1 after exactly PlanTicks ticks.
PlanRunsToCompletion == [](PlanSchedule) /\ (PlanStarted ~> PlanComplete)

\* C2 witness: a two-cycle plan with unequal segments has run to completion.
PlanCompleted ==
    /\ PlanComplete /\ ticks > 0
    /\ target_cycles = 2 /\ work_duration = 2 /\ break_duration = 1

OneNotificationPerCrossing == notified = (IF crossed THEN 1 ELSE 0)

\* C5 witness: a tick has just brought a break segment to 0 and notified once.
CrossingNotified ==
    op = "tick" /\ crossed /\ notified = 1 /\ mode = "WORK" /\ current_cycle = 2

\* C6: 1 <= current_cycle <= target_cycles in every reachable state, and the expiry of
\* the last break sets current_cycle back to 1.
CycleWithinTarget ==
    /\ [](1 <= current_cycle /\ current_cycle <= target_cycles)
    /\ [][Expires /\ mode = "BREAK" /\ current_cycle >= target_cycles
            => current_cycle' = 1]_vars

\* C6 witness: the last break of a plan of several cycles is about to expire.
LastBreakRunning ==
    /\ mode = "BREAK" /\ is_running /\ current_time = 1
    /\ current_cycle = target_cycles /\ target_cycles > 1

\* C7: 0 <= current_time <= total_time in every reachable state.
TimeWithinSegment == 0 <= current_time /\ current_time <= total_time

\* C7 witness: the work segment of the second cycle has run down to its last second.
SecondCycleLastSecond ==
    /\ settings.work_duration = 1 /\ mode = "WORK" /\ total_time = 60
    /\ current_cycle = 2 /\ is_running /\ current_time = 1 /\ dialogs = 0

\* C8 as stated: every tick while running leaves current_time at most its value
\* before the tick and at least 0.
TickNeverIncreases ==
    [][op' = "tick" /\ is_running
         => current_time' <= current_time /\ current_time' >= 0]_vars

\* C8 amended: every tick while running leaves current_time at least 0; a tick that
\* does not expire the segment leaves it one below its value before the tick, and the
\* tick that expires the segment reseeds it to the new segment's total_time.
TickDecrementsOrReseeds ==
    [][op' = "tick" /\ is_running =>
         /\ current_time' >= 0
         /\ IF current_time > 1
              THEN current_time' = current_time - 1 /\ current_time' <= current_time
              ELSE current_time' = total_time']_vars

\* C8 witness: a tick has expired a work segment and reseeded a longer break.
TickReseeded ==
    /\ op = "tick" /\ crossed /\ mode = "BREAK"
    /\ current_time = total_time /\ break_duration > work_duration

\* The duration of the segment of mode m, in seconds, from the configured minutes.
SegmentSeconds(m, w, b) == (IF m = "WORK" THEN w ELSE b) * 60

\* C9: an accepted duration change for the active mode resets the segment as reset()
\* does; one for the other mode leaves mode, total_time, current_time and is_running
\* alone, and every transition seeds the segment from the duration then configured.
DurationChangeEffect ==
    [][/\ op' = "set_work" =>
            IF mode = "WORK"
              THEN /\ is_running' = FALSE
                   /\ total_time' = work_duration' * 60
                   /\ current_time' = total_time'
                   /\ mode' = mode
              ELSE UNCHANGED <<mode, total_time, current_time, is_running>>
       /\ op' = "set_break" =>
            IF mode = "BREAK"
              THEN /\ is_running' = FALSE
                   /\ total_time' = break_duration' * 60
                   /\ current_time' = total_time'
                   /\ mode' = mode
              ELSE UNCHANGED <<mode, total_time, current_time, is_running>>
       /\ Expires =>
            total_time' = SegmentSeconds(mode', work_duration, break_duration)]_vars

\* C9 witness: the break duration was changed during a running work segment, which
\* went on undisturbed.
BreakChangedDuringWork ==
    /\ op = "set_break" /\ mode = "WORK" /\ is_running
    /\ current_time < total_time /\ break_duration # work_duration

\* The value set by the configure command that preceded the reset command.
JustConfigured == IF configured = "work" THEN work_duration ELSE break_duration

\* C10 as stated: a reset right after a duration was configured yields
\* is_running = FALSE and current_time = total_time = (value just configured) * 60.
ConfigureResetRoundTrip ==
    op = "reset" /\ configured \in {"work", "break"} =>
        /\ ~is_running
        /\ current_time = total_time
        /\ total_time = JustConfigured * 60

\* C10 amended: a reset right after a configure command yields is_running = FALSE and
\* current_time = total_time = (configured duration of the current mode) * 60, which
\* is the value just configured when that was the duration of the current mode.
ConfigureResetCurrentMode ==
    op = "reset" /\ configured # "none" =>
        /\ ~is_running
        /\ current_time = total_time
        /\ total_time = SegmentSeconds(mode, work_duration, break_duration)
        /\ (configured = "work" /\ mode = "WORK") \/ (configured = "break" /\ mode = "BREAK")
              => total_time = JustConfigured * 60

\* C10 witness: the work duration was configured during a break, then reset was chosen.
ResetAfterOtherModeConfigured ==
    /\ op = "reset" /\ configured = "work" /\ mode = "BREAK"
    /\ work_duration # break_duration

\* C11: in every reachable state, the one built at startup from the persisted
\* configuration included, the configured values and their persisted copies are
\* within the bounds of the dialogs: work 1..120, break 1..60, target cycles 1..20.
ConfigurationInBounds ==
    /\ work_duration \in 1..120
    /\ break_duration \in 1..60
    /\ target_cycles \in 1..20
    /\ settings.work_duration \in 1..120
    /\ settings.break_duration \in 1..60
    /\ settings.target_cycles \in 1..20

\* C12: toggle() flips is_running and changes no other field (mode, total_time,
\* current_time, current_cycle, target_cycles, the configured durations), so a paused
\* timer starts with current_time as it was, and two consecutive toggles restore the
\* fields as they were before the first.
ToggleFlipsOnly ==
    /\ [][op' = "toggle" =>
            /\ is_running' = ~is_running
            /\ UNCHANGED <<mode, total_time, current_time, current_cycle,
                           target_cycles, work_duration, break_duration>>]_vars
    /\ [](toggle_run.n = 2 => Snapshot = toggle_run.before)

\* C12 witness: a running break segment was paused and started again mid-way.
ToggledTwiceMidBreak ==
    /\ op = "toggle" /\ toggle_run.n = 2 /\ is_running
    /\ mode = "BREAK" /\ 0 < current_time /\ current_time < total_time

\* C13: an accepted set-target-cycles command sets target_cycles to a value of the
\* dialog's range, persists that value, sets current_cycle to 1 whatever cycle was in
\* progress, and leaves mode, total_time, current_time and is_running unchanged.
SetCyclesEffect ==
    [][op' = "set_cycles" =>
         /\ target_cycles' \in 1..20
         /\ settings' = [settings EXCEPT !.target_cycles = target_cycles']
         /\ current_cycle' = 1
         /\ UNCHANGED <<mode, total_time, current_time, is_running>>]_vars

\* C13 witness: the target was set during a running break, which went on counting.
CyclesSetDuringBreak ==
    /\ op = "set_cycles" /\ mode = "BREAK" /\ is_running
    /\ current_time < total_time /\ current_cycle = 1
    /\ target_cycles = 2 /\ settings.target_cycles = 2
====
